---------------------------- MODULE Spec2Model ----------------------------
(***************************************************************************)
(* A model of the DCF valuation pipeline of dcf_dashboard:                 *)
(*   data_loader.py  (statement normalizer)                                *)
(*   utils.py        (fiscal-year aligner, assumption log)                 *)
(*   metrics.py      (historical metrics engine)                           *)
(*   assumptions.py  (assumptions engine)                                  *)
(*   forecast.py     (forecast engine)                                     *)
(*   dcf.py          (valuation engine)                                    *)
(*                                                                         *)
(* Python floats are modelled as exact rationals <<n, d>> in lowest terms  *)
(* (d > 0), extended with NaN and the two infinities that pandas produces  *)
(* for missing cells and for divisions by zero.  A pandas DataFrame is a   *)
(* record [index |-> sequence of fiscal years, cols |-> function from the  *)
(* column names to sequences of cells, one cell per index entry].          *)
(***************************************************************************)
EXTENDS Integers, Sequences, FiniteSets, TLC

VARIABLES
    pc,          \* position of the run: "start", "done" or "raised"
    dfs,         \* align_fiscal_years: the list of frames passed in
    aligned,     \* align_fiscal_years: the list of frames returned
    raw,         \* DataLoader.normalize_*: [kind, df] the raw statement
    normalized,  \* DataLoader.normalize_*: the normalized statement
    inc,         \* compute_historical_metrics: aligned income statement
    cf,          \* compute_historical_metrics: aligned cash-flow statement
    bs,          \* compute_historical_metrics: aligned balance sheet
    args,        \* compute_historical_metrics: [lookback, min_years]
    hist,        \* HistoricalMetrics returned (or None)
    presets,     \* scenario_presets: name -> Assumptions object
    scenario,    \* the variant the caller selected (an alias into presets)
    overrides,   \* apply_overrides: the keyword arguments passed
    fin,         \* build_forecast: [last_actual_year, last_actual_revenue]
    forecast,    \* ForecastOutputs.df: the sequence of forecast rows
    dcfIn,       \* run_dcf: its arguments
    dcf,         \* DCFResult returned (or None)
    log          \* the process-wide logger: sequence of emitted records

vars == <<pc, dfs, aligned, raw, normalized, inc, cf, bs, args, hist,
          presets, scenario, overrides, fin, forecast, dcfIn, dcf, log>>

alignVars == <<dfs, aligned>>
normalizeVars == <<raw, normalized>>
statementVars == <<inc, cf, bs, args>>
assumptionVars == <<presets, scenario, overrides>>
forecastVars == <<fin, forecast>>
dcfVars == <<dcfIn, dcf>>

\* Every number is a pair <<n, d>>; d = 0 marks the IEEE specials, and the
\* empty tuple is Python's None.
None == <<>>
NaN == <<0, 0>>
PosInf == <<1, 0>>
NegInf == <<-1, 0>>

(***************************************************************************)
(* Exact arithmetic standing for Python / numpy float arithmetic.          *)
(***************************************************************************)
Abs(n) == IF n < 0 THEN -n ELSE n

RECURSIVE GCD(_, _)
GCD(a, b) == IF b = 0 THEN a ELSE GCD(b, a % b)

\* the rational n/d in lowest terms with a positive denominator
Rat(n, d) ==
    LET g == GCD(Abs(n), Abs(d))
        s == IF d < 0 THEN -1 ELSE 1
    IN  <<s * (n \div g), Abs(d) \div g>>

I(n) == <<n, 1>>
Zero == I(0)
One == I(1)

IsNum(x) == Len(x) = 2 /\ x[2] > 0

LCM(a, b) == (a \div GCD(a, b)) * b

\* x + y, x - y on rationals
RAdd(x, y) ==
    LET l == LCM(x[2], y[2])
    IN  Rat(x[1] * (l \div x[2]) + y[1] * (l \div y[2]), l)

RNeg(x) == <<-x[1], x[2]>>

RSub(x, y) == RAdd(x, RNeg(y))

\* x * y, cancelling across before multiplying
RMul(x, y) ==
    LET a == Rat(x[1], y[2])
        b == Rat(y[1], x[2])
    IN  <<a[1] * b[1], a[2] * b[2]>>

\* x / y for y # 0
RDiv(x, y) == RMul(x, Rat(y[2], y[1]))

RLt(x, y) ==
    LET l == LCM(x[2], y[2])
    IN  x[1] * (l \div x[2]) < y[1] * (l \div y[2])

RLe(x, y) == x = y \/ RLt(x, y)

RMax(x, y) == IF RLt(x, y) THEN y ELSE x

RMin(x, y) == IF RLt(y, x) THEN y ELSE x

RECURSIVE RPow(_, _)
RPow(x, k) == IF k = 0 THEN One ELSE RMul(x, RPow(x, k - 1))

RSign(x) == IF x[1] > 0 THEN 1 ELSE IF x[1] < 0 THEN -1 ELSE 0

(***************************************************************************)
(* Cells: a rational, or NaN / +Inf / -Inf.  Element-wise Series           *)
(* arithmetic of pandas follows IEEE 754.                                  *)
(***************************************************************************)
CAdd(x, y) ==
    IF x = NaN \/ y = NaN THEN NaN
    ELSE IF IsNum(x) /\ IsNum(y) THEN RAdd(x, y)
    ELSE IF IsNum(x) THEN y
    ELSE IF IsNum(y) THEN x
    ELSE IF x = y THEN x ELSE NaN

CNeg(x) ==
    IF x = NaN THEN NaN
    ELSE IF x = PosInf THEN NegInf
    ELSE IF x = NegInf THEN PosInf
    ELSE RNeg(x)

CSub(x, y) == CAdd(x, CNeg(y))

\* x / y with a finite divisor column (revenue): x/0 is +-Inf, 0/0 is NaN
CDiv(x, y) ==
    IF x = NaN \/ y = NaN THEN NaN
    ELSE IF ~IsNum(x) THEN
        IF RSign(y) = 0 THEN x
        ELSE IF RSign(y) > 0 THEN x ELSE CNeg(x)
    ELSE IF RSign(y) = 0 THEN
        IF RSign(x) = 0 THEN NaN
        ELSE IF RSign(x) > 0 THEN PosInf ELSE NegInf
    ELSE RDiv(x, y)

CAbs(x) ==
    IF x = NaN THEN NaN
    ELSE IF ~IsNum(x) THEN PosInf
    ELSE <<Abs(x[1]), x[2]>>

\* x < y on non-NaN cells
CLt(x, y) ==
    IF x = y THEN FALSE
    ELSE IF x = NegInf \/ y = PosInf THEN TRUE
    ELSE IF x = PosInf \/ y = NegInf THEN FALSE
    ELSE RLt(x, y)

(***************************************************************************)
(* Sequences and frames.                                                   *)
(***************************************************************************)
Range(s) == {s[i] : i \in 1..Len(s)}

SetMin(S) == CHOOSE x \in S : \A y \in S : x <= y

SetMax(S) == CHOOSE x \in S : \A y \in S : y <= x

\* Python sorted() of a set of integers
RECURSIVE Sorted(_)
Sorted(S) ==
    IF S = {} THEN <<>>
    ELSE <<SetMin(S)>> \o Sorted(S \ {SetMin(S)})

\* Python sorted() of a list of integers (duplicates kept)
RECURSIVE SortedList(_)
SortedList(s) ==
    IF Len(s) = 0 THEN <<>>
    ELSE LET m == SetMin(Range(s))
             i == CHOOSE j \in 1..Len(s) : s[j] = m
         IN  <<m>> \o SortedList(SubSeq(s, 1, i - 1) \o SubSeq(s, i + 1, Len(s)))

\* the positions of the rows of an index that carry a label, in index order
RECURSIVE PositionsOf(_, _, _)
PositionsOf(index, label, from) ==
    IF from > Len(index) THEN <<>>
    ELSE (IF index[from] = label THEN <<from>> ELSE <<>>)
         \o PositionsOf(index, label, from + 1)

\* the positions df.loc[labels] selects: for each label in turn, every row
\* of the index carrying it
RECURSIVE LocPositions(_, _)
LocPositions(index, labels) ==
    IF Len(labels) = 0 THEN <<>>
    ELSE PositionsOf(index, Head(labels), 1) \o LocPositions(index, Tail(labels))

\* df.loc[labels] for a list of labels that are all present in the index
Loc(df, labels) ==
    LET p == LocPositions(df.index, labels)
    IN  [index |-> [i \in 1..Len(p) |-> df.index[p[i]]],
         cols  |-> [c \in DOMAIN df.cols |->
                        [i \in 1..Len(p) |-> df.cols[c][p[i]]]]]

\* pd.DataFrame(index=idx): a frame with no columns
NoCols == [c \in {} |-> <<>>]

EmptyFrame(idx) == [index |-> idx, cols |-> NoCols]

\* DataFrame.empty: some axis has length zero
IsEmpty(df) == Len(df.index) = 0 \/ DOMAIN df.cols = {}

HasCol(df, c) == c \in DOMAIN df.cols

(***************************************************************************)
(* utils.py: align_fiscal_years                                            *)
(***************************************************************************)
\* years = set(dfs[0].index); for d in dfs[1:]: years = years & set(d.index)
RECURSIVE IntersectYears(_, _, _)
IntersectYears(list, years, k) ==
    IF k > Len(list) THEN years
    ELSE IntersectYears(list, years \cap Range(list[k].index), k + 1)

\* a mutant: the years of any frame are kept (union instead of intersection)
UnionOfYears(list) == UNION {Range(list[k].index) : k \in 1..Len(list)}

CommonYears(list) == IntersectYears(list, Range(list[1].index), 2)

align_fiscal_years(list) ==
    IF Len(list) = 0 THEN list
    ELSE LET common == Sorted(CommonYears(list))
         IN  [k \in 1..Len(list) |-> Loc(list[k], common)]


(***************************************************************************)
(* Specification of the aligner: a list of normalized statements goes in,  *)
(* align_fiscal_years runs once.                                           *)
(***************************************************************************)
\* the value of a variable the component under study does not use
Unused == <<>>

FirstYear == 2020

NumAlignYears == 2

MaxDfs == 3

AlignYears == FirstYear .. (FirstYear + NumAlignYears - 1)

\* the fiscal-year indexes of a statement: distinct years in any order
IndexSeqs(Y) ==
    {s \in UNION {[1..n -> Y] : n \in 0..Cardinality(Y)} :
        \A i, j \in 1..Len(s) : i # j => s[i] # s[j]}

\* the k-th statement of the list: one column whose cells tell the
\* statement and the year they come from
AlignFrame(k, idx) ==
    [index |-> idx,
     cols  |-> [c \in {"revenue"} |->
                   [i \in 1..Len(idx) |-> I(10 * k + (idx[i] - FirstYear))]]]

InitAlign ==
    /\ pc = "start"
    /\ \E n \in 0..MaxDfs :
         \E idxs \in [1..n -> IndexSeqs(AlignYears)] :
            \* bare: the statements that came back with no column at all
            \E bare \in SUBSET {k \in 1..n : idxs[k] = <<>>} :
               dfs = [k \in 1..n |->
                        IF k \in bare THEN EmptyFrame(<<>>)
                        ELSE AlignFrame(k, idxs[k])]
    /\ aligned = Unused
    /\ raw = Unused /\ normalized = Unused
    /\ inc = Unused /\ cf = Unused /\ bs = Unused /\ args = Unused
    /\ hist = Unused
    /\ presets = Unused /\ scenario = Unused /\ overrides = Unused
    /\ fin = Unused
    /\ forecast = Unused
    /\ dcfIn = Unused /\ dcf = Unused
    /\ log = <<>>

AlignFiscalYears ==
    /\ pc = "start"
    /\ aligned' = align_fiscal_years(dfs)
    /\ pc' = "done"
    /\ UNCHANGED <<dfs, normalizeVars, statementVars, hist, assumptionVars,
                   forecastVars, dcfVars, log>>

NextAlign == AlignFiscalYears

SpecAlign == InitAlign /\ [][NextAlign]_vars

\* C1: every statement returned by align_fiscal_years is indexed by exactly
\* the years common to all the inputs, in ascending order, and each of its
\* rows is the input row of that year: no year that some input lacks is
\* kept, no row is interpolated or filled.
C1_AlignedIsSortedIntersection ==
    (pc = "done" /\ Len(dfs) > 0) =>
        LET common == {y \in AlignYears :
                          \A j \in 1..Len(dfs) : y \in Range(dfs[j].index)}
        IN  /\ Len(aligned) = Len(dfs)
            /\ \A k \in 1..Len(dfs) :
                 LET out == aligned[k]
                     in == dfs[k]
                 IN  /\ Range(out.index) = common
                     /\ Len(out.index) = Cardinality(common)
                     /\ \A i \in 1..(Len(out.index) - 1) :
                          out.index[i] < out.index[i + 1]
                     /\ DOMAIN out.cols = DOMAIN in.cols
                     /\ \A c \in DOMAIN out.cols :
                          /\ Len(out.cols[c]) = Len(out.index)
                          /\ \A i \in 1..Len(out.index) :
                               \E j \in 1..Len(in.index) :
                                  /\ in.index[j] = out.index[i]
                                  /\ in.cols[c][j] = out.cols[c][i]

\* a year of the first statement is missing from the second and is dropped
\* from both, while a common year survives from an unsorted input
C1_Witness ==
    /\ pc = "done"
    /\ Len(dfs) >= 2
    /\ Len(dfs[1].index) = 2
    /\ dfs[1].index[1] > dfs[1].index[2]
    /\ Range(dfs[1].index) \ Range(dfs[2].index) # {}
    /\ Len(aligned[1].index) = 1
    /\ Len(aligned[2].index) = 1

(***************************************************************************)
(* utils.py: the logger, validate_fields, log_assumption                   *)
(***************************************************************************)
MANDATORY_INCOME ==
    <<"revenue", "operating_income", "pretax_income", "tax_expense", "net_income">>

MANDATORY_CASHFLOW == <<"capex", "da", "cfo">>

MANDATORY_BALANCE == <<"current_liabilities", "cash", "total_debt">>

\* one record of the "dcf" logger
LogRecord(level, prefix, msg, detail) ==
    [level |-> level, prefix |-> prefix, msg |-> msg, detail |-> detail]

\* what validate_fields appends to the log
validate_fields(df, required, statement_name) ==
    LET missing == SelectSeq(required, LAMBDA c : ~HasCol(df, c))
    IN  IF missing # <<>>
        THEN <<LogRecord("WARNING", "", statement_name, missing)>>
        ELSE <<>>

\* what log_assumption appends to the log
log_assumption(msg, detail) ==
    <<LogRecord("WARNING", "Assumption", msg, detail)>>

(***************************************************************************)
(* data_loader.py: the statement normalizer                                *)
(***************************************************************************)
\* label_map of normalize_income, in the insertion order Python iterates
IncomeLabelMap ==
    << <<"Total Revenue", "revenue">>,
       <<"Revenue", "revenue">>,
       <<"Operating Income", "operating_income">>,
       <<"EBIT", "operating_income">>,
       <<"Ebit", "operating_income">>,
       <<"Income Before Tax", "pretax_income">>,
       <<"Income Tax Expense", "tax_expense">>,
       <<"Provision for income taxes", "tax_expense">>,
       <<"Net Income", "net_income">>,
       <<"Net Income Common Stockholders", "net_income">> >>

\* label_map of normalize_cashflow
CashflowLabelMap ==
    << <<"Capital Expenditure", "capex">>,
       <<"Capital Expenditures", "capex">>,
       <<"CapitalExpenditure", "capex">>,
       <<"Depreciation", "da">>,
       <<"Depreciation And Amortization", "da">>,
       <<"Reconciled Depreciation", "da">>,
       <<"Operating Cash Flow", "cfo">>,
       <<"Total Cash From Operating Activities", "cfo">>,
       <<"Change In Working Capital", "delta_nwc">>,
       <<"ChangeInWorkingCapital", "delta_nwc">> >>

CurrentAssetsLabels == <<"Total Current Assets", "Current Assets", "CurrentAssets">>

CurrentLiabilitiesLabels ==
    <<"Total Current Liabilities", "Current Liabilities", "CurrentLiabilities",
      "Current Liabilities Net Minority Interest">>

CashLabels == <<"Cash And Cash Equivalents", "Cash">>

\* normalized[name] = series: a column is added, or overwritten in place
SetCol(cols, name, series) ==
    [c \in DOMAIN cols \cup {name} |-> IF c = name THEN series ELSE cols[c]]

\* for raw, norm in label_map.items(): if raw in df.columns:
\*     normalized[norm] = df[raw]
RECURSIVE ApplyLabelMap(_, _, _, _)
ApplyLabelMap(df, label_map, k, cols) ==
    IF k > Len(label_map) THEN cols
    ELSE LET rawl == label_map[k][1]
             norm == label_map[k][2]
         IN  ApplyLabelMap(df, label_map, k + 1,
                IF HasCol(df, rawl) THEN SetCol(cols, norm, df.cols[rawl])
                ELSE cols)

\* for label in labels: if label in bs.columns:
\*     normalized[name] = bs[label]; break
RECURSIVE FirstPresent(_, _, _, _, _)
FirstPresent(df, labels, k, name, cols) ==
    IF k > Len(labels) THEN cols
    ELSE IF HasCol(df, labels[k]) THEN SetCol(cols, name, df.cols[labels[k]])
    ELSE FirstPresent(df, labels, k + 1, name, cols)

\* a mutant: the provider's sign of CapEx is kept
KeepCapexSign(cols) == cols

\* if "capex" in normalized.columns: normalized["capex"] = normalized["capex"].abs()
NormalizeCapexSign(cols) ==
    IF "capex" \in DOMAIN cols
    THEN SetCol(cols, "capex",
                [i \in 1..Len(cols["capex"]) |-> CAbs(cols["capex"][i])])
    ELSE cols

\* sum(debt_parts): Python's sum starts from the integer 0
RECURSIVE SumSeries(_, _, _)
SumSeries(parts, k, acc) ==
    IF k > Len(parts) THEN acc
    ELSE SumSeries(parts, k + 1,
                   [i \in 1..Len(acc) |-> CAdd(acc[i], parts[k][i])])

\* the total_debt column of normalize_balance
DebtCol(df, cols) ==
    IF HasCol(df, "Total Debt") THEN SetCol(cols, "total_debt", df.cols["Total Debt"])
    ELSE LET debt_parts ==
                 (IF HasCol(df, "Short Long Term Debt")
                  THEN <<df.cols["Short Long Term Debt"]>> ELSE <<>>)
                 \o (IF HasCol(df, "Long Term Debt")
                     THEN <<df.cols["Long Term Debt"]>> ELSE <<>>)
         IN  IF debt_parts # <<>>
             THEN SetCol(cols, "total_debt",
                         SumSeries(debt_parts, 1, [i \in 1..Len(df.index) |-> Zero]))
             ELSE cols

normalize_income(df) ==
    [index |-> df.index, cols |-> ApplyLabelMap(df, IncomeLabelMap, 1, NoCols)]

normalize_cashflow(df) ==
    IF IsEmpty(df) THEN EmptyFrame(<<>>)
    ELSE [index |-> df.index,
          cols  |-> NormalizeCapexSign(ApplyLabelMap(df, CashflowLabelMap, 1, NoCols))]

normalize_balance(df) ==
    IF IsEmpty(df) THEN EmptyFrame(<<>>)
    ELSE LET c1 == FirstPresent(df, CurrentAssetsLabels, 1, "current_assets", NoCols)
             c2 == FirstPresent(df, CurrentLiabilitiesLabels, 1, "current_liabilities", c1)
             c3 == FirstPresent(df, CashLabels, 1, "cash", c2)
         IN  [index |-> df.index, cols |-> DebtCol(df, c3)]

(***************************************************************************)
(* Specification of the normalizer: one raw statement of some kind goes    *)
(* in, the normalize_* method of its kind runs once.                       *)
(***************************************************************************)
NumRawYears == 2

MaxRawLabels == 5

\* the provider labels a raw statement may carry: every label the
\* normalizer knows, and one it does not
RawLabelList(kind) ==
    CASE kind = "income" ->
            [k \in 1..Len(IncomeLabelMap) |-> IncomeLabelMap[k][1]]
            \o <<"Gross Profit">>
      [] kind = "cashflow" ->
            [k \in 1..Len(CashflowLabelMap) |-> CashflowLabelMap[k][1]]
            \o <<"Free Cash Flow">>
      [] kind = "balance" ->
            CurrentAssetsLabels \o CurrentLiabilitiesLabels \o CashLabels
            \o <<"Total Debt", "Short Long Term Debt", "Long Term Debt", "Total Assets">>

\* the cell of the p-th label in the i-th year: its magnitude tells the
\* label and the year, the variant gives the sign and the missing cells
RawCell(p, i, variant) ==
    CASE variant = "positive" -> I(10 * p + i)
      [] variant = "negative" -> I(-(10 * p + i))
      [] variant = "gap" -> IF i = 1 THEN NaN ELSE I(-(10 * p + i))

RawFrame(kind, present, n, variant) ==
    LET labels == RawLabelList(kind)
    IN  [index |-> [i \in 1..n |-> FirstYear + i - 1],
         cols  |-> [l \in {labels[p] : p \in present} |->
                       LET p == CHOOSE q \in present : labels[q] = l
                       IN  [i \in 1..n |-> RawCell(p, i, variant)]]]

InitNormalize ==
    /\ pc = "start"
    /\ \E kind \in {"income", "cashflow", "balance"} :
         \E present \in SUBSET (1..Len(RawLabelList(kind))) :
            \E n \in 0..NumRawYears :
               \E variant \in {"positive", "negative", "gap"} :
                  /\ Cardinality(present) <= MaxRawLabels
                  /\ raw = [kind |-> kind, df |-> RawFrame(kind, present, n, variant)]
    /\ normalized = Unused
    /\ dfs = Unused /\ aligned = Unused
    /\ inc = Unused /\ cf = Unused /\ bs = Unused /\ args = Unused
    /\ hist = Unused
    /\ presets = Unused /\ scenario = Unused /\ overrides = Unused
    /\ fin = Unused
    /\ forecast = Unused
    /\ dcfIn = Unused /\ dcf = Unused
    /\ log = <<>>

NormalizeIncome ==
    /\ pc = "start"
    /\ raw.kind = "income"
    /\ normalized' = normalize_income(raw.df)
    /\ log' = log \o validate_fields(normalized', MANDATORY_INCOME, "Income Statement")
    /\ pc' = "done"
    /\ UNCHANGED <<alignVars, raw, statementVars, hist, assumptionVars,
                   forecastVars, dcfVars>>

NormalizeCashflow ==
    /\ pc = "start"
    /\ raw.kind = "cashflow"
    /\ normalized' = normalize_cashflow(raw.df)
    /\ log' = IF IsEmpty(raw.df) THEN log
              ELSE log \o validate_fields(normalized', MANDATORY_CASHFLOW,
                                          "Cash Flow Statement")
    /\ pc' = "done"
    /\ UNCHANGED <<alignVars, raw, statementVars, hist, assumptionVars,
                   forecastVars, dcfVars>>

NormalizeBalance ==
    /\ pc = "start"
    /\ raw.kind = "balance"
    /\ normalized' = normalize_balance(raw.df)
    /\ log' = IF IsEmpty(raw.df) THEN log
              ELSE log \o validate_fields(normalized', MANDATORY_BALANCE,
                                          "Balance Sheet")
    /\ pc' = "done"
    /\ UNCHANGED <<alignVars, raw, statementVars, hist, assumptionVars,
                   forecastVars, dcfVars>>

NextNormalize == NormalizeIncome \/ NormalizeCashflow \/ NormalizeBalance

SpecNormalize == InitNormalize /\ [][NextNormalize]_vars

\* the label_map of a kind of statement that has one
LabelMapOf(kind) == IF kind = "income" THEN IncomeLabelMap ELSE CashflowLabelMap

\* C7: in normalize_income and normalize_cashflow, when several provider
\* labels of the raw statement map to one canonical name, the canonical
\* column holds the values of the label that comes first in the mapping
\* table (CapEx in absolute value); a later label never overwrites it.
C7_FirstMatchWins ==
    (pc = "done" /\ raw.kind \in {"income", "cashflow"}
       /\ ~(raw.kind = "cashflow" /\ IsEmpty(raw.df))) =>
        LET label_map == LabelMapOf(raw.kind)
        IN  \A k \in 1..Len(label_map) :
               (/\ HasCol(raw.df, label_map[k][1])
                /\ \A j \in 1..(k - 1) :
                      label_map[j][2] = label_map[k][2]
                          => ~HasCol(raw.df, label_map[j][1]))
               => /\ HasCol(normalized, label_map[k][2])
                  /\ normalized.cols[label_map[k][2]] =
                        [i \in 1..Len(raw.df.index) |->
                            IF label_map[k][2] = "capex"
                            THEN CAbs(raw.df.cols[label_map[k][1]][i])
                            ELSE raw.df.cols[label_map[k][1]][i]]

\* the canonical vocabulary of each kind of normalized statement
Canonical(kind) ==
    CASE kind = "income" ->
            {"revenue", "operating_income", "pretax_income", "tax_expense", "net_income"}
      [] kind = "cashflow" -> {"capex", "da", "cfo", "delta_nwc"}
      [] kind = "balance" ->
            {"current_assets", "current_liabilities", "cash", "total_debt"}

\* the provider labels a canonical column can be taken from
SourceLabels(kind, c) ==
    IF kind = "balance"
    THEN CASE c = "current_assets" -> Range(CurrentAssetsLabels)
           [] c = "current_liabilities" -> Range(CurrentLiabilitiesLabels)
           [] c = "cash" -> Range(CashLabels)
           [] c = "total_debt" ->
                {"Total Debt", "Short Long Term Debt", "Long Term Debt"}
    ELSE {LabelMapOf(kind)[k][1] :
            k \in {j \in 1..Len(LabelMapOf(kind)) : LabelMapOf(kind)[j][2] = c}}

\* C8: a normalized statement holds only columns of the canonical
\* vocabulary, a canonical column is present only if one of its source
\* labels was present in the raw statement, every column has one cell per
\* fiscal year, and every non-missing CapEx cell is >= 0.
C8_CanonicalColumnsAndCapexSign ==
    pc = "done" =>
        /\ DOMAIN normalized.cols \subseteq Canonical(raw.kind)
        /\ \A c \in DOMAIN normalized.cols :
             /\ \E l \in SourceLabels(raw.kind, c) : HasCol(raw.df, l)
             /\ Len(normalized.cols[c]) = Len(normalized.index)
        /\ (raw.kind = "cashflow" /\ HasCol(normalized, "capex")) =>
             \A i \in 1..Len(normalized.index) :
                LET x == normalized.cols["capex"][i]
                IN  x # NaN => (x = PosInf \/ (IsNum(x) /\ RSign(x) >= 0))

\* a cash-flow statement whose CapEx the provider reports negative, with a
\* label the normalizer does not know and without any D&A label
C8_Witness ==
    /\ pc = "done"
    /\ raw.kind = "cashflow"
    /\ HasCol(raw.df, "Capital Expenditure")
    /\ HasCol(raw.df, "Free Cash Flow")
    /\ Len(raw.df.index) = 2
    /\ raw.df.cols["Capital Expenditure"][1] = NaN
    /\ RSign(raw.df.cols["Capital Expenditure"][2]) < 0
    /\ HasCol(normalized, "capex")
    /\ ~HasCol(normalized, "da")

(***************************************************************************)
(* data_loader.py: DataLoader.load.  The provider hands over each of the   *)
(* three statements, or nothing for it; a statement comes indexed by       *)
(* fiscal year, newest first or oldest first.                              *)
(***************************************************************************)
\* a mutant: only a statement the provider did not return at all
IncomeAbsent(r) == "income" \in r.missing

\* inc is None or inc.empty: fetch_raw raises ValueError
IncomeUnavailable(r) == "income" \in r.missing \/ IsEmpty(r.income)

\* cf is None or cf.empty, bs is None or bs.empty
StatementUnavailable(r, kind) == kind \in r.missing \/ IsEmpty(r[kind])

\* ensure_year_index of a statement whose index is integer years
ensure_year_index(df) == df

\* the warnings fetch_raw logs for a missing cash-flow statement and a
\* missing balance sheet
FetchRawLog(r) ==
    (IF StatementUnavailable(r, "cashflow")
     THEN <<LogRecord("WARNING", "", "Cash flow statement missing", <<>>)>>
     ELSE <<>>)
    \o (IF StatementUnavailable(r, "balance")
        THEN <<LogRecord("WARNING", "", "Balance sheet missing", <<>>)>>
        ELSE <<>>)

\* the RawStatements of fetch_raw past its raise: pd.DataFrame() stands in
\* for a statement that is missing or empty
fetch_raw(r) ==
    [income   |-> ensure_year_index(r.income),
     cashflow |-> IF StatementUnavailable(r, "cashflow") THEN EmptyFrame(<<>>)
                  ELSE ensure_year_index(r.cashflow),
     balance  |-> IF StatementUnavailable(r, "balance") THEN EmptyFrame(<<>>)
                  ELSE ensure_year_index(r.balance)]

\* what the three normalize_* calls of load append to the log
NormalizeLog(rs) ==
    validate_fields(normalize_income(rs.income), MANDATORY_INCOME,
                    "Income Statement")
    \o (IF IsEmpty(rs.cashflow) THEN <<>>
        ELSE validate_fields(normalize_cashflow(rs.cashflow),
                             MANDATORY_CASHFLOW, "Cash Flow Statement"))
    \o (IF IsEmpty(rs.balance) THEN <<>>
        ELSE validate_fields(normalize_balance(rs.balance),
                             MANDATORY_BALANCE, "Balance Sheet"))

\* the NormalizedStatements of load past the raise of fetch_raw
load(r) ==
    LET rs == fetch_raw(r)
        al == align_fiscal_years(<<normalize_income(rs.income),
                                   normalize_cashflow(rs.cashflow),
                                   normalize_balance(rs.balance)>>)
    IN  [income |-> al[1], cashflow |-> al[2], balance |-> al[3]]

\* the fiscal-year indexes a provider statement may carry
LoadIndexes ==
    {<<>>, <<FirstYear>>, <<FirstYear + 1>>, <<FirstYear, FirstYear + 1>>,
     <<FirstYear + 1, FirstYear>>}

\* the label sets a provider statement may carry: none, known labels, and
\* an unknown one
LoadLabels(kind) ==
    CASE kind = "income" ->
            {{}, {"Total Revenue"}, {"Total Revenue", "Operating Income"},
             {"Gross Profit"}}
      [] kind = "cashflow" -> {{"Capital Expenditure", "Depreciation"}}
      [] kind = "balance" -> {{"Total Current Assets", "Cash", "Total Debt"}}

\* a provider statement: the cell of a label in a year tells both
LoadFrame(kind, labels, idx) ==
    LET all == RawLabelList(kind)
    IN  [index |-> idx,
         cols  |-> [l \in labels |->
                      LET p == CHOOSE q \in 1..Len(all) : all[q] = l
                      IN  [i \in 1..Len(idx) |-> I(10 * p + idx[i] - FirstYear)]]]

LoadFrames(kind) ==
    {LoadFrame(kind, labels, idx) : labels \in LoadLabels(kind), idx \in LoadIndexes}

InitLoad ==
    /\ pc = "start"
    /\ \E missing \in SUBSET {"income", "cashflow", "balance"} :
         \E i \in LoadFrames("income"), c \in LoadFrames("cashflow"),
            b \in LoadFrames("balance") :
            raw = [missing  |-> missing,
                   income   |-> IF "income" \in missing THEN EmptyFrame(<<>>) ELSE i,
                   cashflow |-> IF "cashflow" \in missing THEN EmptyFrame(<<>>) ELSE c,
                   balance  |-> IF "balance" \in missing THEN EmptyFrame(<<>>) ELSE b]
    /\ normalized = Unused
    /\ dfs = Unused /\ aligned = Unused
    /\ inc = Unused /\ cf = Unused /\ bs = Unused /\ args = Unused
    /\ hist = Unused
    /\ presets = Unused /\ scenario = Unused /\ overrides = Unused
    /\ fin = Unused
    /\ forecast = Unused
    /\ dcfIn = Unused /\ dcf = Unused
    /\ log = <<>>

\* statements = loader.load()
Load ==
    /\ pc = "start"
    /\ IF IncomeUnavailable(raw)
       THEN \* raise ValueError("Income statement not available; ...")
            /\ pc' = "raised"
            /\ UNCHANGED <<normalized, log>>
       ELSE /\ normalized' = load(raw)
            /\ log' = log \o FetchRawLog(raw) \o NormalizeLog(fetch_raw(raw))
            /\ pc' = "done"
    /\ UNCHANGED <<alignVars, raw, statementVars, hist, assumptionVars,
                   forecastVars, dcfVars>>

NextLoad == Load

SpecLoad == InitLoad /\ [][NextLoad]_vars

\* C16: load raises exactly when the income statement is missing or empty;
\* with an income statement of at least one fiscal year and a cash-flow
\* statement or balance sheet that is missing or empty, load returns, and
\* every statement it returns, the income statement included, has an empty
\* fiscal-year index.
C16_DegradedLoadIsEmpty ==
    pc # "start" =>
        /\ (pc = "raised") <=> ("income" \in raw.missing \/ IsEmpty(raw.income))
        /\ (/\ "income" \notin raw.missing
            /\ ~IsEmpty(raw.income)
            /\ \E kind \in {"cashflow", "balance"} :
                  kind \in raw.missing \/ IsEmpty(raw[kind])) =>
              /\ pc = "done"
              /\ normalized.income.index = <<>>
              /\ normalized.cashflow.index = <<>>
              /\ normalized.balance.index = <<>>

\* two years of income and of balance sheet, no cash-flow statement: load
\* returns an income statement with no year
C16_Witness ==
    /\ pc = "done"
    /\ Len(raw.income.index) = 2
    /\ HasCol(raw.income, "Total Revenue")
    /\ "cashflow" \in raw.missing
    /\ Len(raw.balance.index) = 2
    /\ "balance" \notin raw.missing
    /\ normalized.income.index = <<>>
    /\ HasCol(normalized.income, "revenue")
    /\ \E k \in 1..Len(log) : log[k].msg = "Cash flow statement missing"

(***************************************************************************)
(* metrics.py: the historical metrics engine                               *)
(***************************************************************************)
\* Series.dropna(): the non-missing cells, in order
DropNa(series) == SelectSeq(series, LAMBDA x : x # NaN)

\* the integer k >= 0 with k^n = p, or -1 when p is no perfect n-th power
IntRoot(p, n) ==
    IF \E k \in 0..p : RPow(I(k), n) = I(p)
    THEN CHOOSE k \in 0..p : RPow(I(k), n) = I(p)
    ELSE -1

\* ratio ** (1 / n) - 1 for ratio > 0: the rational itself when the root is
\* rational, else the triple <<p, q, n>> standing for the irrational
\* (p/q)^(1/n) - 1
GrowthRate(ratio, n) ==
    LET a == IntRoot(ratio[1], n)
        b == IntRoot(ratio[2], n)
    IN  IF a >= 0 /\ b >= 0 THEN RSub(Rat(a, b), One)
        ELSE <<ratio[1], ratio[2], n>>

\* a mutant: only the first value is tested for being non-positive
compute_cagr_start_only(series) ==
    LET s == DropNa(series)
    IN  IF Len(s) < 3 THEN None
        ELSE IF RSign(s[1]) <= 0 THEN None
        ELSE IF RSign(s[Len(s)]) <= 0 THEN NaN
        ELSE GrowthRate(RDiv(s[Len(s)], s[1]), Len(s) - 1)

compute_cagr(series) ==
    LET s == DropNa(series)
    IN  IF Len(s) < 3 THEN None
        ELSE LET start == s[1]
                 end == s[Len(s)]
                 n_periods == Len(s) - 1
             IN  IF RSign(start) <= 0 \/ RSign(end) <= 0 THEN None
                 ELSE GrowthRate(RDiv(end, start), n_periods)

\* the cells of s in ascending order
RECURSIVE SortCells(_)
SortCells(s) ==
    IF Len(s) = 0 THEN <<>>
    ELSE LET i == CHOOSE j \in 1..Len(s) :
                    \A k \in 1..Len(s) : ~CLt(s[k], s[j])
         IN  <<s[i]>> \o SortCells(SubSeq(s, 1, i - 1) \o SubSeq(s, i + 1, Len(s)))

\* np.median of a non-empty array without NaN
Median(s) ==
    LET t == SortCells(s)
        n == Len(t)
    IN  IF n % 2 = 1 THEN t[(n + 1) \div 2]
        ELSE LET sum == CAdd(t[n \div 2], t[n \div 2 + 1])
             IN  IF IsNum(sum) THEN RDiv(sum, I(2)) ELSE sum

median_over_years(series, min_years) ==
    LET s == DropNa(series)
    IN  IF Len(s) < min_years THEN None ELSE Median(s)

\* the default of the min_years parameter of median_over_years
DefaultMinYears == 3

\* element-wise a / b, a + b, a - b of two Series over the same index
SeriesDiv(a, b) == [i \in 1..Len(a) |-> CDiv(a[i], b[i])]

SeriesAdd(a, b) == [i \in 1..Len(a) |-> CAdd(a[i], b[i])]

SeriesSub(a, b) == [i \in 1..Len(a) |-> CSub(a[i], b[i])]

\* Series.diff(): the first cell is NaN
SeriesDiff(a) ==
    [i \in 1..Len(a) |-> IF i = 1 THEN NaN ELSE CSub(a[i], a[i - 1])]

\* years = sorted(inc.index)[-lookback:] if len(inc.index) > lookback
\*         else sorted(inc.index)
LookbackYears(df, lookback) ==
    LET all == SortedList(df.index)
    IN  IF Len(all) > lookback
        THEN SubSeq(all, Len(all) - lookback + 1, Len(all))
        ELSE all

\* cf.loc[years] if not cf.empty else pd.DataFrame(index=years)
Window(df, years) == IF ~IsEmpty(df) THEN Loc(df, years) ELSE EmptyFrame(years)

\* df.get(name): the column, or None
Get(df, name) == IF HasCol(df, name) THEN df.cols[name] ELSE None

\* x if x is not None else 0.0
OrZero(x) == IF x # None THEN x ELSE Zero

\* a mutant: the balance sheet is consulted before the cash-flow statement
DeltaNwcSourceBalanceFirst(cf_lb, bs_lb) ==
    IF HasCol(bs_lb, "current_assets") /\ HasCol(bs_lb, "current_liabilities")
    THEN "balance"
    ELSE IF HasCol(cf_lb, "delta_nwc") THEN "cashflow"
    ELSE "assumed"

\* which branch of the if / elif / else of the delta-NWC block is taken
DeltaNwcSource(cf_lb, bs_lb) ==
    IF HasCol(cf_lb, "delta_nwc") THEN "cashflow"
    ELSE IF HasCol(bs_lb, "current_assets") /\ HasCol(bs_lb, "current_liabilities")
    THEN "balance"
    ELSE "assumed"

\* d_nwc_pct as the delta-NWC block leaves it
DeltaNwcPct(cf_lb, bs_lb, revenue) ==
    CASE DeltaNwcSource(cf_lb, bs_lb) = "cashflow" ->
            median_over_years(SeriesDiv(cf_lb.cols["delta_nwc"], revenue),
                              DefaultMinYears)
      [] DeltaNwcSource(cf_lb, bs_lb) = "balance" ->
            LET nwc == SeriesSub(bs_lb.cols["current_assets"],
                                 bs_lb.cols["current_liabilities"])
                d_nwc == SeriesDiff(nwc)
            IN  median_over_years(SeriesDiv(d_nwc, revenue), DefaultMinYears)
      [] DeltaNwcSource(cf_lb, bs_lb) = "assumed" -> Zero

\* the HistoricalMetrics that compute_historical_metrics returns when the
\* income statement has a revenue column; min_years is accepted and not
\* passed on to median_over_years
compute_historical_metrics(i, c, b, lookback, min_years) ==
    LET years == LookbackYears(i, lookback)
        inc_lb == Loc(i, years)
        cf_lb == Window(c, years)
        bs_lb == Window(b, years)
        revenue == Get(inc_lb, "revenue")
        ebit == Get(inc_lb, "operating_income")
        da == Get(cf_lb, "da")
        capex == Get(cf_lb, "capex")
        ebit_margin ==
            IF ebit # None
            THEN median_over_years(SeriesDiv(ebit, revenue), DefaultMinYears)
            ELSE None
        ebitda_margin ==
            IF ebit # None /\ da # None
            THEN median_over_years(SeriesDiv(SeriesAdd(ebit, da), revenue),
                                   DefaultMinYears)
            ELSE None
        capex_pct ==
            IF capex # None
            THEN median_over_years(SeriesDiv(capex, revenue), DefaultMinYears)
            ELSE None
        da_pct ==
            IF da # None
            THEN median_over_years(SeriesDiv(da, revenue), DefaultMinYears)
            ELSE None
        d_nwc_pct == DeltaNwcPct(cf_lb, bs_lb, revenue)
        rev_cagr == compute_cagr(revenue)
    IN  [revenue_cagr      |-> OrZero(rev_cagr),
         ebit_margin       |-> OrZero(ebit_margin),
         ebitda_margin     |-> ebitda_margin,
         capex_pct_revenue |-> OrZero(capex_pct),
         da_pct_revenue    |-> OrZero(da_pct),
         d_nwc_pct_revenue |-> OrZero(d_nwc_pct),
         lookback_years    |-> Len(years)]

(***************************************************************************)
(* Specification of the metrics engine: three aligned statements go in,    *)
(* compute_historical_metrics runs once.                                   *)
(***************************************************************************)
NumMetricYears == 4

\* the lookback and min_years arguments tried: the defaults (5, 3) and a
\* shorter window and threshold
Lookbacks == {3, 5}

MinYearsArgs == {2, 3}

MetricYears(n) == [i \in 1..n |-> FirstYear + i - 1]

Const(n, v) == [i \in 1..n |-> v]

Ramp(n, step) == [i \in 1..n |-> I(step * i)]

\* cells of the revenue column: missing, negative, zero, positive
RevenueCells == {NaN, I(-1), I(0), I(1), I(2), I(4)}

\* delta_nwc columns: the same every year, growing, and one with just
\* NumMetricYears - 2 reported years
DeltaNwcColumns(n) ==
    {Const(n, I(1)), Ramp(n, 2), [i \in 1..n |-> IF i <= 2 THEN NaN ELSE I(3)]}

\* cells of the current_assets column
CurrentAssetsCells == {NaN, I(2), I(6)}

\* the columns named in keep, out of a record of columns
Only(keep, cols) == [c \in keep \cap DOMAIN cols |-> cols[c]]

\* statements that vary the revenue history; the cash-flow statement and
\* the balance sheet carry the same years and no column
InitRevenueHistory ==
    \E n \in 0..NumMetricYears :
       \E rev \in [1..n -> RevenueCells] :
          \E keep \in {{"revenue"}, {"revenue", "operating_income"},
                       {"operating_income"}} :
             /\ inc = [index |-> MetricYears(n),
                       cols  |-> Only(keep, [revenue |-> rev,
                                             operating_income |-> Const(n, I(1))])]
             /\ cf = EmptyFrame(MetricYears(n))
             /\ bs = EmptyFrame(MetricYears(n))

\* statements that vary the working-capital sources under a steady revenue
InitWorkingCapital ==
    \E n \in 0..NumMetricYears :
       \E delta \in DeltaNwcColumns(n) :
          \E ca \in [1..n -> CurrentAssetsCells] :
             \E keepCf \in {{}, {"delta_nwc"}, {"da", "capex"},
                            {"da", "capex", "delta_nwc"}} :
                \E keepBs \in {{}, {"current_assets"}, {"current_liabilities"},
                               {"current_assets", "current_liabilities"}} :
                   /\ inc = [index |-> MetricYears(n),
                             cols  |-> [revenue |-> Const(n, I(2)),
                                        operating_income |-> Ramp(n, 1)]]
                   /\ cf = [index |-> MetricYears(n),
                            cols  |-> Only(keepCf, [da |-> Const(n, I(1)),
                                                    capex |-> Ramp(n, 1),
                                                    delta_nwc |-> delta])]
                   /\ bs = [index |-> MetricYears(n),
                            cols  |-> Only(keepBs, [current_assets |-> ca,
                                                    current_liabilities |-> Const(n, I(1))])]

InitMetrics ==
    /\ pc = "start"
    /\ InitRevenueHistory \/ InitWorkingCapital
    /\ args \in [lookback : Lookbacks, min_years : MinYearsArgs]
    /\ hist = Unused
    /\ dfs = Unused /\ aligned = Unused
    /\ raw = Unused /\ normalized = Unused
    /\ presets = Unused /\ scenario = Unused /\ overrides = Unused
    /\ fin = Unused
    /\ forecast = Unused
    /\ dcfIn = Unused /\ dcf = Unused
    /\ log = <<>>

\* what the delta-NWC block appends to the log
DeltaNwcLog(i, c, b, lookback) ==
    LET years == LookbackYears(i, lookback)
    IN  IF DeltaNwcSource(Window(c, years), Window(b, years)) = "assumed"
        THEN log_assumption("dNWC unavailable from cash flow and balance sheet -> assume dNWC % revenue = 0.", <<>>)
        ELSE <<>>

ComputeHistoricalMetrics ==
    /\ pc = "start"
    /\ IF ~HasCol(inc, "revenue")
       THEN \* raise ValueError("Revenue missing; ...")
            /\ pc' = "raised"
            /\ UNCHANGED <<hist, log>>
       ELSE /\ hist' = compute_historical_metrics(inc, cf, bs, args.lookback,
                                                  args.min_years)
            /\ log' = log \o DeltaNwcLog(inc, cf, bs, args.lookback)
            /\ pc' = "done"
    /\ UNCHANGED <<alignVars, normalizeVars, statementVars, assumptionVars,
                   forecastVars, dcfVars>>

NextMetrics == ComputeHistoricalMetrics

SpecMetrics == InitMetrics /\ [][NextMetrics]_vars

\* C2: when the aligned income statement has no fiscal year (the year
\* intersection was empty), compute_historical_metrics raises instead of
\* returning a HistoricalMetrics.
C2_EmptyIntersectionIsFatal ==
    (pc # "start" /\ Len(inc.index) = 0) => pc = "raised"

\* the revenue cells of the lookback window, oldest first: the last
\* min(lookback, number of years) rows of the aligned income statement
WindowRows ==
    LET n == Len(inc.index)
        m == IF n > args.lookback THEN args.lookback ELSE n
    IN  [j \in 1..m |-> n - m + j]

RevenueWindow == [j \in 1..Len(WindowRows) |-> inc.cols["revenue"][WindowRows[j]]]

RatioWindow(col) ==
    [j \in 1..Len(WindowRows) |-> CDiv(col[WindowRows[j]], RevenueWindow[j])]

\* the year-over-year change of current_assets - current_liabilities inside
\* the lookback window, over revenue; the earliest year of the window has none
NwcChangeRatios ==
    [j \in 1..Len(WindowRows) |->
        IF j = 1 THEN NaN
        ELSE CDiv(CSub(CSub(bs.cols["current_assets"][WindowRows[j]],
                            bs.cols["current_liabilities"][WindowRows[j]]),
                       CSub(bs.cols["current_assets"][WindowRows[j - 1]],
                            bs.cols["current_liabilities"][WindowRows[j - 1]])),
                  RevenueWindow[j])]

\* the median of the non-missing ratios when there are at least three of
\* them, else the 0.0 default
MedianOrDefault(ratios) ==
    IF Len(DropNa(ratios)) >= 3 THEN Median(DropNa(ratios)) ELSE Zero

IsDeltaNwcAssumption(rec) ==
    rec.prefix = "Assumption" /\ rec.level = "WARNING"

RatioCount(df, col) ==
    IF HasCol(df, col) THEN Len(DropNa(RatioWindow(df.cols[col]))) ELSE 0

\* the number of non-missing ratios behind d_nwc_pct_revenue
DeltaNwcRatioCount ==
    IF HasCol(cf, "delta_nwc") THEN RatioCount(cf, "delta_nwc")
    ELSE IF HasCol(bs, "current_assets") /\ HasCol(bs, "current_liabilities")
    THEN Len(DropNa(NwcChangeRatios))
    ELSE 0

IsAssumption(rec) == rec.prefix = "Assumption"

\* C11: in every call of compute_historical_metrics, a metric that is
\* undefined and reported as the 0.0 default has an "Assumption" entry in the
\* log of that call; so has d_nwc_pct_revenue when its source column is
\* present and yields fewer than three ratios.
C11_DefaultsAreLogged ==
    pc = "done" =>
        /\ (\/ compute_cagr(RevenueWindow) = None
            \/ RatioCount(inc, "operating_income") < DefaultMinYears
            \/ RatioCount(cf, "capex") < DefaultMinYears
            \/ RatioCount(cf, "da") < DefaultMinYears)
              => \E k \in 1..Len(log) : IsAssumption(log[k])
        /\ DeltaNwcRatioCount < DefaultMinYears
              => \E k \in 1..Len(log) : IsDeltaNwcAssumption(log[k])

\* the median of the non-missing ratios when there are at least m of them
MedianWithThreshold(ratios, m) ==
    IF Len(DropNa(ratios)) >= m THEN Median(DropNa(ratios)) ELSE None

\* C12: with the min_years argument m, each median metric is the median of
\* its non-missing ratios when the lookback window has at least m of them,
\* and its default (0.0, None for the EBITDA margin) with fewer.
C12_MinYearsArgumentIsThreshold ==
    pc = "done" =>
        LET m == args.min_years
        IN  /\ HasCol(inc, "operating_income") =>
                 hist.ebit_margin =
                    OrZero(MedianWithThreshold(
                              RatioWindow(inc.cols["operating_income"]), m))
            /\ (HasCol(inc, "operating_income") /\ HasCol(cf, "da")) =>
                 hist.ebitda_margin =
                    MedianWithThreshold(
                       RatioWindow(SeriesAdd(inc.cols["operating_income"],
                                             cf.cols["da"])), m)
            /\ HasCol(cf, "capex") =>
                 hist.capex_pct_revenue =
                    OrZero(MedianWithThreshold(RatioWindow(cf.cols["capex"]), m))
            /\ HasCol(cf, "da") =>
                 hist.da_pct_revenue =
                    OrZero(MedianWithThreshold(RatioWindow(cf.cols["da"]), m))
            /\ HasCol(cf, "delta_nwc") =>
                 hist.d_nwc_pct_revenue =
                    OrZero(MedianWithThreshold(RatioWindow(cf.cols["delta_nwc"]), m))

(***************************************************************************)
(* assumptions.py: the assumptions engine                                  *)
(***************************************************************************)
DEFAULT_YEARS == 10

\* tax_rate_default = 0.25, terminal_growth_default = 0.02
TaxRateDefault == Rat(25, 100)

TerminalGrowthDefault == Rat(2, 100)

derive_defaults(h) ==
    [years             |-> DEFAULT_YEARS,
     revenue_growth    |-> h.revenue_cagr,
     ebit_margin       |-> h.ebit_margin,
     tax_rate          |-> TaxRateDefault,
     da_pct_revenue    |-> h.da_pct_revenue,
     capex_pct_revenue |-> h.capex_pct_revenue,
     d_nwc_pct_revenue |-> h.d_nwc_pct_revenue,
     terminal_growth   |-> TerminalGrowthDefault,
     use_ebitda_margin |-> h.ebitda_margin # None,
     ebitda_margin     |-> h.ebitda_margin]

\* the Bull variant of scenario_presets
Bull(base) ==
    [years             |-> base.years,
     revenue_growth    |-> RAdd(base.revenue_growth, Rat(3, 100)),
     ebit_margin       |-> RMin(RAdd(base.ebit_margin, Rat(3, 100)), Rat(4, 10)),
     tax_rate          |-> base.tax_rate,
     da_pct_revenue    |-> RMax(RSub(base.da_pct_revenue, Rat(5, 1000)), Zero),
     capex_pct_revenue |-> RMax(RSub(base.capex_pct_revenue, Rat(5, 1000)), Zero),
     d_nwc_pct_revenue |-> RMax(RSub(base.d_nwc_pct_revenue, Rat(3, 1000)), Zero),
     terminal_growth   |-> RAdd(base.terminal_growth, Rat(5, 1000)),
     use_ebitda_margin |-> base.use_ebitda_margin,
     ebitda_margin     |-> IF base.ebitda_margin # None
                           THEN RAdd(base.ebitda_margin, Rat(2, 100))
                           ELSE None]

\* the Bear variant of scenario_presets
Bear(base) ==
    [years             |-> base.years,
     revenue_growth    |-> RMax(RSub(base.revenue_growth, Rat(3, 100)), Rat(-1, 10)),
     ebit_margin       |-> RMax(RSub(base.ebit_margin, Rat(3, 100)), Zero),
     tax_rate          |-> base.tax_rate,
     da_pct_revenue    |-> RAdd(base.da_pct_revenue, Rat(5, 1000)),
     capex_pct_revenue |-> RAdd(base.capex_pct_revenue, Rat(5, 1000)),
     d_nwc_pct_revenue |-> RAdd(base.d_nwc_pct_revenue, Rat(3, 1000)),
     terminal_growth   |-> RMax(RSub(base.terminal_growth, Rat(5, 1000)), Zero),
     use_ebitda_margin |-> base.use_ebitda_margin,
     ebitda_margin     |-> IF base.ebitda_margin # None
                           THEN RSub(base.ebitda_margin, Rat(2, 100))
                           ELSE None]

\* {"Base": base, "Bull": bull, "Bear": bear}: Base is the object passed
\* in, Bull and Bear are new objects
scenario_presets(base) ==
    [name \in {"Base", "Bull", "Bear"} |->
        CASE name = "Base" -> base
          [] name = "Bull" -> Bull(base)
          [] name = "Bear" -> Bear(base)]

\* the fields of the Assumptions dataclass: hasattr(base, k)
AssumptionFields ==
    {"years", "revenue_growth", "ebit_margin", "tax_rate", "da_pct_revenue",
     "capex_pct_revenue", "d_nwc_pct_revenue", "terminal_growth",
     "use_ebitda_margin", "ebitda_margin"}

\* a mutant: the attribute is left as it was
KeepAttr(a, k, v) == a

\* setattr(base, k, v); a years value arrives as the number <<n, 1>>
SetAttr(a, k, v) ==
    IF k = "years" THEN [a EXCEPT !.years = v[1]]
    ELSE [a EXCEPT ![k] = v]

\* apply_overrides over the keyword arguments kwargs, a sequence of
\* <<name, value>> in call order: the object after the loop
RECURSIVE apply_overrides(_, _)
apply_overrides(a, kwargs) ==
    IF Len(kwargs) = 0 THEN a
    ELSE LET k == Head(kwargs)[1]
             v == Head(kwargs)[2]
         IN  apply_overrides(
                IF k \in AssumptionFields /\ v # None THEN SetAttr(a, k, v) ELSE a,
                Tail(kwargs))

\* what apply_overrides appends to the log: one assumption per override set
RECURSIVE OverrideLog(_)
OverrideLog(kwargs) ==
    IF Len(kwargs) = 0 THEN <<>>
    ELSE LET k == Head(kwargs)[1]
             v == Head(kwargs)[2]
         IN  (IF k \in AssumptionFields /\ v # None
              THEN log_assumption("Override", <<k>>) ELSE <<>>)
             \o OverrideLog(Tail(kwargs))

(***************************************************************************)
(* forecast.py: the forecast engine                                        *)
(***************************************************************************)
\* a mutant: every year regrows the last actual revenue
NextRevenueFromLastActual(revenue, last_actual_revenue, a) ==
    RMul(last_actual_revenue, RAdd(One, a.revenue_growth))

\* revenue = revenue * (1 + assumptions.revenue_growth)
NextRevenue(revenue, last_actual_revenue, a) ==
    RMul(revenue, RAdd(One, a.revenue_growth))

\* a mutant: the EBIT-margin branch whatever the mode
NeverEbitdaMode(a) == FALSE

\* assumptions.use_ebitda_margin and assumptions.ebitda_margin is not None
EbitdaMode(a) == a.use_ebitda_margin /\ a.ebitda_margin # None

\* one pass of the loop body: the row of year y from this year's revenue
ForecastRow(y, revenue, a) ==
    LET ebitda_mode == EbitdaMode(a)
        da == RMul(a.da_pct_revenue, revenue)
        ebit == IF ebitda_mode
                THEN RMax(RSub(RMul(a.ebitda_margin, revenue), da), Zero)
                ELSE RMul(a.ebit_margin, revenue)
        nopat == RMul(ebit, RSub(One, a.tax_rate))
        capex == RMul(a.capex_pct_revenue, revenue)
        d_nwc == RMul(a.d_nwc_pct_revenue, revenue)
    IN  [year    |-> y,
         revenue |-> revenue,
         ebit    |-> ebit,
         nopat   |-> nopat,
         da      |-> da,
         capex   |-> capex,
         d_nwc   |-> d_nwc,
         fcff    |-> RSub(RSub(RAdd(nopat, da), capex), d_nwc)]

\* the loop over years: rows of the years i .. assumptions.years after the
\* last actual one, given the revenue of the year before
RECURSIVE ForecastRows(_, _, _, _, _)
ForecastRows(i, revenue, last_actual_year, last_actual_revenue, a) ==
    IF i > a.years THEN <<>>
    ELSE LET r == NextRevenue(revenue, last_actual_revenue, a)
         IN  <<ForecastRow(last_actual_year + i, r, a)>>
             \o ForecastRows(i + 1, r, last_actual_year, last_actual_revenue, a)

\* build_forecast: the rows of ForecastOutputs.df, indexed by year
build_forecast(last_actual_year, last_actual_revenue, a) ==
    ForecastRows(1, last_actual_revenue, last_actual_year, last_actual_revenue, a)

(***************************************************************************)
(* Specification of the assumptions and forecast engines, as app.py chains *)
(* them: derive_defaults, scenario_presets, the choice of a variant,       *)
(* apply_overrides on it, build_forecast.                                  *)
(***************************************************************************)
MaxForecastYears == 2

MaxOverrides == 2

\* the HistoricalMetrics handed to derive_defaults: shrinking, flat and
\* growing revenue; negative, ordinary and high EBIT margin; EBITDA margin
\* undefined, below and above D&A
HistChoices ==
    [revenue_cagr      : {Rat(-1, 5), Zero, Rat(1, 10)},
     ebit_margin       : {Rat(-1, 10), Rat(1, 5), Rat(1, 2)},
     ebitda_margin     : {None, Rat(1, 50), Rat(1, 4)},
     capex_pct_revenue : {Rat(1, 20)},
     da_pct_revenue    : {Zero, Rat(1, 20)},
     d_nwc_pct_revenue : {Zero, Rat(1, 100)},
     lookback_years    : {4}]

\* the keyword arguments a caller may pass to apply_overrides, in call
\* order: horizons, rates, a null value, and a name that is no field
OverrideOptions ==
    [n \in 1..(MaxForecastYears + 1) |-> <<"years", I(n - 1)>>]
    \o << <<"revenue_growth", None>>,
          <<"revenue_growth", Rat(1, 2)>>,
          <<"ebit_margin", Rat(3, 10)>>,
          <<"ebit_margin", Rat(-1, 20)>>,
          <<"tax_rate", Rat(1, 5)>>,
          <<"terminal_growth", Rat(3, 100)>>,
          <<"shares_outstanding", I(5)>> >>

\* the options picked by the positions in S, in call order
RECURSIVE PickOptions(_, _)
PickOptions(S, k) ==
    IF k > Len(OverrideOptions) THEN <<>>
    ELSE (IF k \in S THEN <<OverrideOptions[k]>> ELSE <<>>)
         \o PickOptions(S, k + 1)

\* keyword arguments: at most MaxOverrides of them, no name twice
KwargsChoices ==
    {PickOptions(S, 1) :
        S \in {T \in SUBSET (1..Len(OverrideOptions)) :
                  /\ Cardinality(T) <= MaxOverrides
                  /\ \A i, j \in T :
                        i # j => OverrideOptions[i][1] # OverrideOptions[j][1]}}

LastActualYear == FirstYear + 3

LastActualRevenues == {I(80), I(100)}

InitForecast ==
    /\ pc = "hist"
    /\ hist \in HistChoices
    /\ presets = Unused /\ scenario = Unused /\ overrides = Unused
    /\ fin = Unused
    /\ forecast = Unused
    /\ dfs = Unused /\ aligned = Unused
    /\ raw = Unused /\ normalized = Unused
    /\ inc = Unused /\ cf = Unused /\ bs = Unused /\ args = Unused
    /\ dcfIn = Unused /\ dcf = Unused
    /\ log = <<>>

\* base = derive_defaults(hist)
DeriveDefaults ==
    /\ pc = "hist"
    /\ presets' = [name \in {"Base"} |-> derive_defaults(hist)]
    /\ pc' = "base"
    /\ UNCHANGED <<alignVars, normalizeVars, statementVars, hist, scenario,
                   overrides, forecastVars, dcfVars, log>>

\* presets = scenario_presets(base)
ScenarioPresets ==
    /\ pc = "base"
    /\ presets' = scenario_presets(presets["Base"])
    /\ pc' = "presets"
    /\ UNCHANGED <<alignVars, normalizeVars, statementVars, hist, scenario,
                   overrides, forecastVars, dcfVars, log>>

\* ass = presets[scenario_name]
SelectScenario ==
    /\ pc = "presets"
    /\ \E name \in {"Base", "Bull", "Bear"} : scenario' = name
    /\ pc' = "selected"
    /\ UNCHANGED <<alignVars, normalizeVars, statementVars, hist, presets,
                   overrides, forecastVars, dcfVars, log>>

\* ass = apply_overrides(ass, **kwargs): the selected object is changed in
\* place and returned
ApplyOverrides ==
    /\ pc = "selected"
    /\ \E kwargs \in KwargsChoices :
          /\ overrides' = kwargs
          /\ presets' = [presets EXCEPT ![scenario] = apply_overrides(@, kwargs)]
          /\ log' = log \o OverrideLog(kwargs)
    /\ pc' = "overridden"
    /\ UNCHANGED <<alignVars, normalizeVars, statementVars, hist, scenario,
                   forecastVars, dcfVars>>

\* forecast = build_forecast(last_year, last_rev, ass); with no year to
\* forecast, pd.DataFrame([]).set_index("year") raises KeyError
BuildForecast ==
    /\ pc = "overridden"
    /\ presets[scenario].years <= MaxForecastYears
    /\ \E last_rev \in LastActualRevenues :
          /\ fin' = [last_actual_year |-> LastActualYear,
                     last_actual_revenue |-> last_rev]
          /\ IF presets[scenario].years < 1
             THEN /\ pc' = "raised"
                  /\ UNCHANGED forecast
             ELSE /\ forecast' = build_forecast(LastActualYear, last_rev,
                                                presets[scenario])
                  /\ pc' = "done"
    /\ UNCHANGED <<alignVars, normalizeVars, statementVars, hist,
                   assumptionVars, dcfVars, log>>

NextForecast ==
    \/ DeriveDefaults
    \/ ScenarioPresets
    \/ SelectScenario
    \/ ApplyOverrides
    \/ BuildForecast

SpecForecast == InitForecast /\ [][NextForecast]_vars

\* C5: build_forecast returns one row per forecast year, keyed by the
\* consecutive years after the last actual one in ascending order; the
\* revenue of the i-th row is last_actual_revenue * (1 + g)^i; and every row
\* has nopat = ebit * (1 - tax_rate) and fcff = nopat + da - capex - d_nwc.
C5_ForecastRowsCompound ==
    pc = "done" =>
        LET a == presets[scenario]
        IN  /\ a.years >= 1
            /\ Len(forecast) = a.years
            /\ \A i \in 1..Len(forecast) :
                 LET row == forecast[i]
                 IN  /\ row.year = fin.last_actual_year + i
                     /\ row.revenue =
                           RMul(fin.last_actual_revenue,
                                RPow(RAdd(One, a.revenue_growth), i))
                     /\ row.nopat = RMul(row.ebit, RSub(One, a.tax_rate))
                     /\ row.fcff =
                           RSub(RSub(RAdd(row.nopat, row.da), row.capex), row.d_nwc)

\* a forecast of two years or more under a non-zero growth rate
C5_Witness ==
    /\ pc = "done"
    /\ Len(forecast) >= 2
    /\ presets[scenario].revenue_growth # Zero
    /\ forecast[2].revenue # forecast[1].revenue
    /\ forecast[1].revenue # fin.last_actual_revenue

\* C6: with a positive last actual revenue, every forecast row has
\* ebit >= 0, in EBITDA mode and in EBIT-margin mode alike.
C6_EbitNeverNegative ==
    (pc = "done" /\ RSign(fin.last_actual_revenue) > 0) =>
        \A i \in 1..Len(forecast) : RSign(forecast[i].ebit) >= 0

\* C13: scenario_presets returns a Bull equal to Base with revenue growth
\* +3pp, EBIT margin +3pp capped at 40%, D&A%, CapEx% and dNWC% each lowered
\* by 0.5pp and floored at 0, terminal growth +0.5pp and EBITDA margin +2pp
\* when defined, and a Bear with the same magnitudes the other way, revenue
\* growth floored at -10%, EBIT margin and terminal growth floored at 0;
\* years, tax rate and EBITDA mode are copied.
C13_PresetShifts ==
    pc = "presets" =>
        LET base == presets["Base"]
            bull == presets["Bull"]
            bear == presets["Bear"]
            pp3  == Rat(3, 100)
            pp2  == Rat(2, 100)
            pp05 == Rat(5, 1000)
        IN  /\ base = derive_defaults(hist)
            /\ bull.revenue_growth = RAdd(base.revenue_growth, pp3)
            /\ bull.ebit_margin = RMin(RAdd(base.ebit_margin, pp3), Rat(40, 100))
            /\ bull.da_pct_revenue = RMax(RSub(base.da_pct_revenue, pp05), Zero)
            /\ bull.capex_pct_revenue = RMax(RSub(base.capex_pct_revenue, pp05), Zero)
            /\ bull.d_nwc_pct_revenue = RMax(RSub(base.d_nwc_pct_revenue, pp05), Zero)
            /\ bull.terminal_growth = RAdd(base.terminal_growth, pp05)
            /\ bull.ebitda_margin = IF base.ebitda_margin = None THEN None
                                    ELSE RAdd(base.ebitda_margin, pp2)
            /\ bear.revenue_growth = RMax(RSub(base.revenue_growth, pp3), Rat(-10, 100))
            /\ bear.ebit_margin = RMax(RSub(base.ebit_margin, pp3), Zero)
            /\ bear.da_pct_revenue = RAdd(base.da_pct_revenue, pp05)
            /\ bear.capex_pct_revenue = RAdd(base.capex_pct_revenue, pp05)
            /\ bear.d_nwc_pct_revenue = RAdd(base.d_nwc_pct_revenue, pp05)
            /\ bear.terminal_growth = RMax(RSub(base.terminal_growth, pp05), Zero)
            /\ bear.ebitda_margin = IF base.ebitda_margin = None THEN None
                                    ELSE RSub(base.ebitda_margin, pp2)
            /\ \A v \in {bull, bear} :
                  /\ v.years = base.years
                  /\ v.tax_rate = base.tax_rate
                  /\ v.use_ebitda_margin = base.use_ebitda_margin

\* C18: the variants of scenario_presets are ordered field by field, Bear
\* <= Base <= Bull, in revenue growth, EBIT margin and terminal growth.
C18_VariantsOrdered ==
    pc = "presets" =>
        \A f \in {"revenue_growth", "ebit_margin", "terminal_growth"} :
            /\ RLe(presets["Bear"][f], presets["Base"][f])
            /\ RLe(presets["Base"][f], presets["Bull"][f])

\* the keyword arguments of a call that name a field and carry a value
AppliedOverrides(kwargs) ==
    SelectSeq(kwargs, LAMBDA kv : kv[1] \in AssumptionFields /\ kv[2] # None)

\* the value a field holds once v has been set on it
StoredValue(k, v) == IF k = "years" THEN v[1] ELSE v

\* C14: a call of apply_overrides on the selected variant sets every field
\* named by an override with a known name and a non-null value to that
\* value, leaves every other field as it was, appends exactly one
\* "Assumption: Override" log entry per applied override (none for a null
\* value or an unknown name, which raise nothing), and leaves the other two
\* variants unchanged.
C14_OverridesFrame ==
    [][(pc = "selected" /\ pc' = "overridden") =>
          LET applied == AppliedOverrides(overrides')
          IN  /\ \A f \in AssumptionFields :
                    IF \E i \in 1..Len(applied) : applied[i][1] = f
                    THEN \E i \in 1..Len(applied) :
                            /\ applied[i][1] = f
                            /\ presets'[scenario][f] = StoredValue(f, applied[i][2])
                    ELSE presets'[scenario][f] = presets[scenario][f]
              /\ DOMAIN presets'[scenario] = AssumptionFields
              /\ \A name \in {"Base", "Bull", "Bear"} \ {scenario} :
                    presets'[name] = presets[name]
              /\ Len(log') = Len(log) + Len(applied)
              /\ SubSeq(log', 1, Len(log)) = log
              /\ \A i \in 1..Len(applied) :
                    log'[Len(log) + i] =
                       LogRecord("WARNING", "Assumption", "Override",
                                 <<applied[i][1]>>)]_vars

\* a call with one override that is applied and one that is ignored (a null
\* value or an unknown name): one log entry, one field changed
C14_Witness ==
    /\ pc = "overridden"
    /\ Len(overrides) = 2
    /\ Len(AppliedOverrides(overrides)) = 1
    /\ Len(log) = 1
    /\ presets[scenario] # scenario_presets(derive_defaults(hist))[scenario]

\* EBIT margins an assumption set could carry instead of its own: the
\* +/-3pp shifts of the presets and the values a user may enter
OtherEbitMargins(a) ==
    {RAdd(a.ebit_margin, Rat(3, 100)), RSub(a.ebit_margin, Rat(3, 100)),
     Zero, Rat(-1, 20), Rat(3, 10), Rat(1, 2)}

\* C17: derive_defaults turns EBITDA mode on exactly when the historical
\* EBITDA margin is defined, and in EBITDA mode (use_ebitda_margin true and
\* ebitda_margin defined) build_forecast gives the same rows for any two
\* assumption sets that differ in ebit_margin only.
C17_EbitdaModeIgnoresEbitMargin ==
    /\ pc = "base" =>
          (presets["Base"].use_ebitda_margin <=> hist.ebitda_margin # None)
    /\ (pc = "done" /\ presets[scenario].use_ebitda_margin
          /\ presets[scenario].ebitda_margin # None) =>
          \A m \in OtherEbitMargins(presets[scenario]) :
             build_forecast(fin.last_actual_year, fin.last_actual_revenue,
                            [presets[scenario] EXCEPT !.ebit_margin = m])
                = forecast

\* a two-year forecast in EBITDA mode, with positive EBIT, from a variant
\* whose ebit_margin a user override has changed
C17_Witness ==
    /\ pc = "done"
    /\ presets[scenario].use_ebitda_margin
    /\ presets[scenario].ebitda_margin # None
    /\ Len(forecast) = 2
    /\ RSign(forecast[1].ebit) > 0
    /\ \E i \in 1..Len(overrides) :
          /\ overrides[i][1] = "ebit_margin"
          /\ overrides[i][2] # scenario_presets(derive_defaults(hist))[scenario].ebit_margin
    /\ forecast[1].ebit # RMul(presets[scenario].ebit_margin, forecast[1].revenue)

(***************************************************************************)
(* dcf.py: the valuation engine                                            *)
(***************************************************************************)
\* the "fcff" column of a forecast frame
FcffColumn(forecast_df) == [i \in 1..Len(forecast_df) |-> forecast_df[i].fcff]

compute_wacc(inp, equity_weight, debt_weight) ==
    LET ce           == RAdd(inp.rf, RMul(inp.beta, inp.erp))
        cd_after_tax == RMul(inp.cost_of_debt, RSub(One, inp.tax_rate))
    IN  RAdd(RMul(equity_weight, ce), RMul(debt_weight, cd_after_tax))

\* sum of fcff[t] / (1 + wacc)^t over t = 1 .. len(forecast_df), 1 + wacc # 0
RECURSIVE DiscountedSum(_, _, _)
DiscountedSum(fcff, wacc, t) ==
    IF t = 0 THEN Zero
    ELSE RAdd(DiscountedSum(fcff, wacc, t - 1),
              RDiv(fcff[t], RPow(RAdd(One, wacc), t)))

discount_cashflows(forecast_df, wacc) ==
    DiscountedSum(FcffColumn(forecast_df), wacc, Len(forecast_df))

\* the guard of terminal_gordon: it raises ValueError when it holds
GordonRaises(wacc, g) == RLe(wacc, g)

\* the number of periods terminal_gordon discounts the terminal value by
TerminalYears(forecast_df) == Len(forecast_df)

\* terminal_gordon past its guard (wacc > g, a non-empty forecast)
terminal_gordon(forecast_df, wacc, g) ==
    LET fcff_last == forecast_df[Len(forecast_df)].fcff
        tv        == RDiv(RMul(fcff_last, RAdd(One, g)), RSub(wacc, g))
        years     == TerminalYears(forecast_df)
    IN  RDiv(tv, RPow(RAdd(One, wacc), years))

\* the number of samples of each axis of the sensitivity table
GridPoints == 5

\* np.linspace(start, stop, num): start + i * (stop - start) / (num - 1)
Linspace(start, stop, num) ==
    [i \in 1..num |->
        RAdd(start, RMul(Rat(i - 1, num - 1), RSub(stop, start)))]

\* np.round(x, 4): to the nearest multiple of 1/10000, ties to the even one
Round4(x) ==
    LET n == x[1] * 10000
        q == n \div x[2]
        r == n - q * x[2]
    IN  IF 2 * r < x[2] THEN Rat(q, 10000)
        ELSE IF 2 * r > x[2] THEN Rat(q + 1, 10000)
        ELSE IF q % 2 = 0 THEN Rat(q, 10000)
        ELSE Rat(q + 1, 10000)

RoundAll(s) == [i \in 1..Len(s) |-> Round4(s[i])]

\* wacc_range = np.round(np.linspace(max(wacc - 0.02, 0.03), wacc + 0.02, 5), 4)
WaccRange(wacc) ==
    RoundAll(Linspace(RMax(RSub(wacc, Rat(2, 100)), Rat(3, 100)),
                      RAdd(wacc, Rat(2, 100)), GridPoints))

\* g_range = np.round(np.linspace(max(g - 0.01, 0.0), g + 0.01, 5), 4)
GrowthRange(terminal_growth) ==
    RoundAll(Linspace(RMax(RSub(terminal_growth, Rat(1, 100)), Zero),
                      RAdd(terminal_growth, Rat(1, 100)), GridPoints))

\* the body of the double loop: the enterprise value at (w, g), or NaN when
\* terminal_gordon raises inside the try
SensitivityCell(forecast_df, w, g) ==
    IF GordonRaises(w, g) THEN NaN
    ELSE RAdd(discount_cashflows(forecast_df, w),
              terminal_gordon(forecast_df, w, g))

HasDuplicates(s) == Cardinality(Range(s)) < Len(s)

\* DataFrame.pivot raises ValueError ("Index contains duplicate entries,
\* cannot reshape") when two rows carry the same (wacc, g) pair
PivotRaises(wacc_range, g_range) ==
    HasDuplicates(wacc_range) \/ HasDuplicates(g_range)

\* pd.DataFrame(sens_rows).pivot(index="wacc", columns="g", ...): the axes
\* sorted ascending, one cell per pair
Pivot(forecast_df, wacc_range, g_range) ==
    LET ws == SortCells(wacc_range)
        gs == SortCells(g_range)
    IN  [wacc |-> ws,
         g    |-> gs,
         enterprise_value |->
            [i \in 1..Len(ws) |->
               [j \in 1..Len(gs) |-> SensitivityCell(forecast_df, ws[i], gs[j])]]]

\* a mutant: any share count that is supplied
AnyShares(shares_outstanding) == shares_outstanding # None

\* shares_outstanding is not None and shares_outstanding > 0
PositiveShares(shares_outstanding) ==
    shares_outstanding # None /\ RSign(shares_outstanding) > 0

\* the DCFResult run_dcf returns past both raises
run_dcf(forecast_df, val_inp, equity_weight, debt_weight, terminal_growth, shares_outstanding) ==
    LET wacc    == compute_wacc(val_inp, equity_weight, debt_weight)
        pv_fcff == discount_cashflows(forecast_df, wacc)
        tv_gg   == terminal_gordon(forecast_df, wacc, terminal_growth)
        ev      == RAdd(pv_fcff, tv_gg)
        eq_value == IF val_inp.net_debt # None
                    THEN RSub(ev, val_inp.net_debt) ELSE None
        intrinsic_ps ==
            IF val_inp.net_debt # None /\ PositiveShares(shares_outstanding)
            THEN RDiv(eq_value, shares_outstanding) ELSE None
    IN  [wacc |-> wacc,
         pv_fcff |-> pv_fcff,
         terminal_value |-> tv_gg,
         enterprise_value |-> ev,
         equity_value |-> eq_value,
         intrinsic_per_share |-> intrinsic_ps,
         shares_outstanding |-> shares_outstanding,
         sensitivity |-> Pivot(forecast_df, WaccRange(wacc),
                               GrowthRange(terminal_growth))]

\* what the exit-multiple sanity check appends to the log
ExitMultipleLog(exit_multiple, exit_metric) ==
    IF exit_multiple # None /\ exit_metric # None
    THEN <<LogRecord("INFO", "",
                     "Exit multiple alternative EV component (discounted)",
                     <<>>)>>
    ELSE <<>>

(***************************************************************************)
(* The valuation tab: run_dcf over forecasts of one and two years, with    *)
(* capital-structure inputs that put the WACC on both sides of the 3%      *)
(* floor and of the terminal growth rate.  Horizons stop at two years so   *)
(* that every exact quotient stays within 32-bit integers.                 *)
(***************************************************************************)
FcffPaths == {<<10>>, <<10, 12>>, <<-4, 6>>, <<5, -3>>}

DcfForecast(path) ==
    [i \in 1..Len(path) |-> [year |-> LastActualYear + i, fcff |-> I(path[i])]]

RfChoices == {Rat(1, 100), Rat(3, 100)}
ErpChoices == {Zero, Rat(2, 100), Rat(6, 100)}
BetaChoices == {I(1), I(2)}
CostOfDebt == Rat(4, 100)
EquityWeights == {One, Rat(1, 2)}
TerminalGrowths == {Rat(-1, 100), Zero, Rat(2, 100), Rat(5, 100)}
NetDebts == {None, I(20)}
ShareCounts == {None, I(-2), I(0), I(4)}
ExitMultiples == {None, I(8)}

InitDcf ==
    /\ pc = "start"
    /\ \E path \in FcffPaths : forecast = DcfForecast(path)
    /\ \E rf \in RfChoices, erp \in ErpChoices, beta \in BetaChoices,
          ew \in EquityWeights, g \in TerminalGrowths, nd \in NetDebts,
          sh \in ShareCounts, em \in ExitMultiples :
          dcfIn = [val_inp |-> [rf |-> rf, erp |-> erp, beta |-> beta,
                                cost_of_debt |-> CostOfDebt,
                                tax_rate |-> TaxRateDefault,
                                net_debt |-> nd],
                   equity_weight |-> ew,
                   debt_weight |-> RSub(One, ew),
                   terminal_growth |-> g,
                   shares_outstanding |-> sh,
                   exit_multiple |-> em,
                   exit_metric |-> IF em = None THEN None ELSE <<I(10)>>]
    /\ dcf = Unused
    /\ dfs = Unused /\ aligned = Unused
    /\ raw = Unused /\ normalized = Unused
    /\ inc = Unused /\ cf = Unused /\ bs = Unused /\ args = Unused
    /\ hist = Unused
    /\ presets = Unused /\ scenario = Unused /\ overrides = Unused
    /\ fin = Unused
    /\ log = <<>>

\* dcf_res = run_dcf(forecast.df, val_inp, equity_weight, debt_weight,
\*                   terminal_growth, shares_outstanding, ...)
RunDcf ==
    /\ pc = "start"
    /\ LET wacc == compute_wacc(dcfIn.val_inp, dcfIn.equity_weight,
                                dcfIn.debt_weight)
       IN  IF GordonRaises(wacc, dcfIn.terminal_growth)
           THEN /\ pc' = "raised"
                /\ dcf' = [error |-> "WACC must be greater than terminal growth rate."]
                /\ UNCHANGED log
           ELSE /\ log' = log \o ExitMultipleLog(dcfIn.exit_multiple,
                                                 dcfIn.exit_metric)
                /\ IF PivotRaises(WaccRange(wacc),
                                  GrowthRange(dcfIn.terminal_growth))
                   THEN /\ pc' = "raised"
                        /\ dcf' = [error |-> "Index contains duplicate entries, cannot reshape"]
                   ELSE /\ pc' = "done"
                        /\ dcf' = run_dcf(forecast, dcfIn.val_inp,
                                          dcfIn.equity_weight,
                                          dcfIn.debt_weight,
                                          dcfIn.terminal_growth,
                                          dcfIn.shares_outstanding)
    /\ UNCHANGED <<alignVars, normalizeVars, statementVars, hist,
                   assumptionVars, forecastVars, dcfIn>>

NextDcf == RunDcf

SpecDcf == InitDcf /\ [][NextDcf]_vars

\* the WACC run_dcf computes from the inputs of the call
CallWacc == compute_wacc(dcfIn.val_inp, dcfIn.equity_weight, dcfIn.debt_weight)

\* C3: run_dcf raises and returns no DCFResult exactly when the computed
\* WACC is <= the terminal growth rate; when WACC > g it returns a result
\* whose terminal value is FCFF_N * (1 + g) / (WACC - g) / (1 + WACC)^N, N the
\* number of forecast years, and whose enterprise value is the present value
\* of the explicit FCFF plus that terminal value.
C3_RaisesExactlyWhenWaccNotAboveGrowth ==
    pc # "start" =>
        LET g == dcfIn.terminal_growth
            N == Len(forecast)
        IN  /\ (pc = "raised") <=> RLe(CallWacc, g)
            /\ RLt(g, CallWacc) =>
                 /\ pc = "done"
                 /\ dcf.terminal_value =
                       RDiv(RDiv(RMul(forecast[N].fcff, RAdd(One, g)),
                                 RSub(CallWacc, g)),
                            RPow(RAdd(One, CallWacc), N))
                 /\ dcf.enterprise_value =
                       RAdd(DiscountedSum(FcffColumn(forecast), CallWacc, N),
                            dcf.terminal_value)

\* the valuation part of C3 on the calls that return: the gordon error is
\* raised exactly when WACC <= g, and a returned result carries the terminal
\* value discounted over N years and EV = PV + TV
ReturnedValuationIsGordon ==
    pc # "start" =>
        LET g == dcfIn.terminal_growth
            N == Len(forecast)
        IN  /\ (pc = "raised"
                /\ dcf.error = "WACC must be greater than terminal growth rate.")
               <=> RLe(CallWacc, g)
            /\ pc = "done" =>
                 /\ dcf.wacc = CallWacc
                 /\ dcf.terminal_value =
                       RDiv(RDiv(RMul(forecast[N].fcff, RAdd(One, g)),
                                 RSub(CallWacc, g)),
                            RPow(RAdd(One, CallWacc), N))
                 /\ dcf.enterprise_value =
                       RAdd(DiscountedSum(FcffColumn(forecast), CallWacc, N),
                            dcf.terminal_value)

\* C4: whenever the headline valuation is valid (WACC > g), run_dcf does not
\* raise while building the sensitivity table, the table has 5 distinct WACC
\* rows and 5 distinct growth columns, and a cell is NaN exactly when its
\* WACC is <= its g.
C4_GridAlwaysFiveByFive ==
    (pc # "start" /\ RLt(dcfIn.terminal_growth, CallWacc)) =>
        /\ pc = "done"
        /\ LET s == dcf.sensitivity
           IN  /\ Len(s.wacc) = GridPoints
               /\ Len(s.g) = GridPoints
               /\ Cardinality(Range(s.wacc)) = GridPoints
               /\ Cardinality(Range(s.g)) = GridPoints
               /\ \A i \in 1..GridPoints : \A j \in 1..GridPoints :
                     (s.enterprise_value[i][j] = NaN) <=> RLe(s.wacc[i], s.g[j])

\* C15: in every DCFResult, equity_value is present exactly when net debt
\* is known and is then enterprise_value - net_debt; intrinsic_per_share is
\* present only under a positive share count (and a known net debt) and is
\* then equity_value / shares_outstanding; a zero or negative share count
\* gives no per-share value and no error.
C15_EquityAndPerShare ==
    pc = "done" =>
        LET nd == dcfIn.val_inp.net_debt
            sh == dcfIn.shares_outstanding
        IN  /\ dcf.shares_outstanding = sh
            /\ (dcf.equity_value # None) <=> (nd # None)
            /\ nd # None => dcf.equity_value = RSub(dcf.enterprise_value, nd)
            /\ (dcf.intrinsic_per_share # None) <=>
                  (nd # None /\ sh # None /\ RLt(Zero, sh))
            /\ dcf.intrinsic_per_share # None =>
                  RMul(dcf.intrinsic_per_share, sh) = dcf.equity_value

\* a result with net debt known and a positive share count: a per-share
\* value that differs from the equity value
C15_Witness ==
    /\ pc = "done"
    /\ dcfIn.val_inp.net_debt = I(20)
    /\ dcfIn.shares_outstanding = I(4)
    /\ dcf.equity_value = RSub(dcf.enterprise_value, I(20))
    /\ dcf.intrinsic_per_share # None
    /\ dcf.intrinsic_per_share # dcf.equity_value

=============================================================================
